---- MODULE Spec2Model ----
(***************************************************************************)
(* The serverless question-answering function of                           *)
(* netlify/functions/ask-gemini.js: the process-wide knowledge cache       *)
(* (cachedKnowledgeBase, cacheTimestamp), the request handler              *)
(* exports.handler as one action per stretch of code between two awaits,   *)
(* and getKnowledgeFromDrive, both as the function of its inputs that the  *)
(* handler awaits and as the fan-out of per-file tasks it is inside.       *)
(*                                                                         *)
(* Text is a sequence of tokens (the concatenation of the tokens is the    *)
(* JavaScript string); the empty sequence is the empty string ''.          *)
(***************************************************************************)
EXTENDS Integers, Sequences, FiniteSets, TLC

\* ------------------------------------------------------------------ bounds
\* Readings of the wall clock after the first (see Tick).
MaxTicks == 2
\* Files a folder listing returns, inside getKnowledgeFromDrive (AggSpec).
MaxFiles == 3
\* Files a folder listing returns to the handler (Spec), to which the text is
\* opaque.
MaxListed == 1

\* The invocations of the handler that one process runs concurrently; each
\* serves one request after another.
Reqs == {1, 2}

\* ------------------------------------------------------- JavaScript values
Null == [type |-> "null", s |-> <<>>]
Undefined == [type |-> "undefined", s |-> <<>>]
Str(tokens) == [type |-> "string", s |-> tokens]

\* ToBoolean of null, undefined or a string: only a non-empty string is true.
Truthy(v) == v.type = "string" /\ Len(v.s) > 0

\* Array.prototype.join on an array of strings.
RECURSIVE Join(_, _)
Join(texts, sep) ==
    IF Len(texts) = 0 THEN <<>>
    ELSE IF Len(texts) = 1 THEN texts[1]
    ELSE texts[1] \o <<sep>> \o Join(Tail(texts), sep)

\* ------------------------------------------------------------------ cache
CACHE_DURATION == 5 * 60 * 1000

\* ------------------------------------------------------------ drive folder
PDF == "application/pdf"
DOCX == "application/vnd.openxmlformats-officedocument.wordprocessingml.document"
PPTX == "application/vnd.openxmlformats-officedocument.presentationml.presentation"

\* What the drive holds: id, name and declared media type of each file, and
\* what the parsers find in its bytes (text, or the slides' text runs).
DriveFiles ==
    << [id |-> "f1", name |-> "syllabus.pdf", mimeType |-> PDF,
        text |-> <<"Late work loses 10% per day.">>, slides |-> <<>>],
       [id |-> "f2", name |-> "slides.pptx", mimeType |-> PPTX,
        text |-> <<>>, slides |-> << <<"Week 1", "Intro">>, <<"Week 2">> >>],
       [id |-> "f3", name |-> "photo.png", mimeType |-> "image/png",
        text |-> <<>>, slides |-> <<>>],
       [id |-> "f4", name |-> "notes.docx", mimeType |-> DOCX,
        text |-> <<>>, slides |-> <<>>] >>

\* The listing of a folder holding the first n files.
Folder(n) == SubSeq(DriveFiles, 1, n)

Delimiter == "\n\n---\n\n"

\* The per-file outcomes: both the byte fetch and the extraction succeed, the
\* byte fetch (drive.files.get or the stream) fails, the extraction throws.
FileOutcomes == {"ok", "fetchError", "extractError"}

\* Text runs of the slides: runs joined by ' ' in a slide, slides by '\n'.
RECURSIVE SlideTexts(_)
SlideTexts(slides) ==
    IF Len(slides) = 0 THEN <<>>
    ELSE <<Join([i \in 1..Len(slides[1]) |-> <<slides[1][i]>>], " ")>>
         \o SlideTexts(Tail(slides))

ExtractText(file) ==
    IF file.mimeType = PDF THEN file.text
    ELSE IF file.mimeType = DOCX THEN file.text
    ELSE IF file.mimeType = PPTX THEN Join(SlideTexts(file.slides), "\n")
    ELSE <<"[Unsupported file type: ", file.name, "]">>

\* Whether a parser is awaited for the file (an unsupported type has none).
HasExtractor(file) == file.mimeType \in {PDF, DOCX, PPTX}

ContentSegment(file) ==
    <<"[Content from file: ", file.name, "]\n">> \o ExtractText(file)

ErrorPlaceholder(file) == <<"[Error reading file: ", file.name, "]">>

\* As FileTask, with the placeholder put after the file's header line.
FileTaskHeaderThenError(file, outcome) ==
    IF outcome = "ok" THEN ContentSegment(file)
    ELSE <<"[Content from file: ", file.name, "]\n">> \o ErrorPlaceholder(file)

\* What one file's task resolves to: the try block spans the byte fetch and
\* the extraction, and its catch returns the placeholder.
FileTask(file, outcome) ==
    IF outcome = "ok" THEN ContentSegment(file) ELSE ErrorPlaceholder(file)

\* getKnowledgeFromDrive once the listing has resolved, as the function of the
\* listing and of each file's outcome that the handler awaits: '' for a
\* missing or empty listing, else the tasks' results in listing order
\* (Promise.all keeps the order of its input), joined.
GetKnowledgeFromDrive(listing, outcome) ==
    IF listing.kind = "undefined" \/ Len(listing.files) = 0 THEN Str(<<>>)
    ELSE Str(Join([i \in 1..Len(listing.files) |->
                      FileTask(listing.files[i], outcome[i])], Delimiter))

\* What drive.files.list resolves to (res.data.files), or that it rejects.
Listings(maxFiles) ==
    {[kind |-> "error", files |-> <<>>], [kind |-> "undefined", files |-> <<>>]}
    \cup {[kind |-> "files", files |-> Folder(n)] : n \in 0..maxFiles}

\* --------------------------------------------------------- request inputs
\* process.env as the handler destructures it; "" stands for an absent (or
\* empty) setting, both of which are falsy.
ValidCredentials == "{\"client_email\":\"bot@example.com\",\"private_key\":\"k\"}"
MalformedCredentials == "not json"

Envs ==
    [GEMINI_API_KEY : {"", "key"},
     DRIVE_API_CREDENTIALS : {"", MalformedCredentials, ValidCredentials},
     DRIVE_FOLDER_ID : {"", "folder"}]

NoEnv == [GEMINI_API_KEY |-> "", DRIVE_API_CREDENTIALS |-> "", DRIVE_FOLDER_ID |-> ""]

\* Whether JSON.parse accepts the credentials string.
ParsesAsJSON(s) == s = ValidCredentials

Methods == {"POST", "GET"}

\* event.body: text that JSON.parse rejects, or the object it yields. An absent
\* userQuestion and an empty one are both falsy and are both written "".
NotRead == [json |-> FALSE, userQuestion |-> "", chatHistory |-> <<>>, read |-> FALSE]
MalformedBody == [json |-> FALSE, userQuestion |-> "", chatHistory |-> <<>>, read |-> TRUE]
QuestionBody ==
    [json |-> TRUE, userQuestion |-> "What is the late policy?",
     chatHistory |-> <<>>, read |-> TRUE]
ChatBody ==
    [json |-> TRUE, userQuestion |-> "",
     chatHistory |-> << [role |-> "user", parts |-> <<[text |-> "What is the late policy?"]>>] >>,
     read |-> TRUE]
Bodies == {MalformedBody, QuestionBody, ChatBody}

NoEvent == [httpMethod |-> "", body |-> NotRead]

\* ---------------------------------------------------------------- responses
NoResponse == [statusCode |-> 0, error |-> <<>>, candidates |-> <<>>]
MethodNotAllowed ==
    [statusCode |-> 405, error |-> <<"Method Not Allowed">>, candidates |-> <<>>]
\* The catch block of the handler.
FunctionError(message) ==
    [statusCode |-> 500, error |-> <<"Function Error: ", message>>, candidates |-> <<>>]
\* The model's JSON, passed through as the body.
Success(result) == [statusCode |-> 200, error |-> <<>>, candidates |-> result.candidates]

MissingKey == "Server configuration error: GEMINI_API_KEY is missing."
MissingCredentials == "Server configuration error: DRIVE_API_CREDENTIALS is missing."
MissingFolder == "Server configuration error: DRIVE_FOLDER_ID is missing."
InvalidCredentials == "Server configuration error: DRIVE_API_CREDENTIALS is not valid JSON."
DriveError == "drive.files.list rejected"
NoContent == "Could not retrieve any content from the Google Drive folder."
BodySyntaxError == "Unexpected token in JSON"
NoQuestion == "No user question was provided."
GeminiMessage == "The model is overloaded."
GeminiFailed == "Failed to fetch from Gemini API."
FetchFailed == "fetch failed"

\* As ConfigError, without the check of DRIVE_FOLDER_ID.
ConfigErrorNoFolderCheck(e) ==
    IF e.GEMINI_API_KEY = "" THEN MissingKey
    ELSE IF e.DRIVE_API_CREDENTIALS = "" THEN MissingCredentials
    ELSE ""

\* The three checks at the head of the try block, in order: the message of the
\* first that throws, "" when none does.
ConfigError(e) ==
    IF e.GEMINI_API_KEY = "" THEN MissingKey
    ELSE IF e.DRIVE_API_CREDENTIALS = "" THEN MissingCredentials
    ELSE IF e.DRIVE_FOLDER_ID = "" THEN MissingFolder
    ELSE ""

\* The prompt of the single request sent to the model.
Prompt(knowledgeBase, userQuestion) ==
    <<"You are a helpful university course assistant named 'Courses Guide'. Your job is to answer student questions based ONLY on the provided course information from the documents. If the answer is not found, you must say \"I'm sorry, I don't have information on that.\" Do not make up answers.\n\nHere is the course information:\n---\n">>
    \o knowledgeBase.s
    \o <<"\n---\n\nNow, please answer the following question: \"", userQuestion, "\"">>

Payload(knowledgeBase, userQuestion) ==
    [contents |-> << [parts |-> << [text |-> Prompt(knowledgeBase, userQuestion)] >>] >>]

NoPayload == [contents |-> <<>>]

\* What the model API answers: a reply, a non-2xx status with or without an
\* error message in its JSON, or no answer at all (fetch rejects).
GeminiReply ==
    [candidates |-> << [content |-> [role |-> "model",
                                    parts |-> <<[text |-> "Late work loses 10% per day."]>>]] >>]
GeminiOutcomes == {"ok", "errorMessage", "errorNoMessage", "rejected"}

\* -------------------------------------------------------------------- state
VARIABLES
    clock,                \* what Date.now() returns
    ticks,                \* how often the clock has advanced
    cachedKnowledgeBase,  \* module-level: null or the aggregated text
    cacheTimestamp,       \* module-level: the time stored with it
    pc,                   \* per invocation: where the handler is suspended
    event,                \* per invocation: the event, as far as it was read
    env,                  \* per invocation: the destructured process.env
    now,                  \* per invocation: the handler's const now
    payload,              \* per invocation: the request sent to the model
    response,             \* per invocation: what the handler last returned
    lastRefresh,          \* history: the refresh that completed last
    aggPc,                \* one call of getKnowledgeFromDrive: where it is
    aggListed,            \* history: how its listing call ended
    aggFiles,             \* its const files
    task,                 \* where each file's task is suspended
    allTexts,             \* what each file's task resolved to
    aggOutcome,           \* history: how each file's task went
    settled,              \* history: the files in the order their tasks settled
    aggResult             \* what the call returned

cacheVars == <<cachedKnowledgeBase, cacheTimestamp>>
clockVars == <<clock, ticks>>
handlerVars == <<pc, event, env, now, payload, response>>
aggVars == <<aggPc, aggListed, aggFiles, task, allTexts, aggOutcome, settled, aggResult>>
vars == <<clockVars, cacheVars, handlerVars, lastRefresh, aggVars>>

\* Before any refresh has completed.
NoRefresh == [by |-> 0, files |-> 0, failed |-> {}, doc |-> Null, now |-> 0, at |-> 0]

Init ==
    /\ clock = 0
    /\ ticks = 0
    /\ cachedKnowledgeBase = Null
    /\ cacheTimestamp = 0
    /\ pc = [r \in Reqs |-> "idle"]
    /\ event = [r \in Reqs |-> NoEvent]
    /\ env = [r \in Reqs |-> NoEnv]
    /\ now = [r \in Reqs |-> 0]
    /\ payload = [r \in Reqs |-> NoPayload]
    /\ response = [r \in Reqs |-> NoResponse]
    /\ lastRefresh = NoRefresh
    /\ aggPc = "idle"
    /\ aggListed = ""
    /\ aggFiles = <<>>
    /\ task = <<>>
    /\ allTexts = <<>>
    /\ aggOutcome = <<>>
    /\ settled = <<>>
    /\ aggResult = Undefined

\* ------------------------------------------------------------------- clock
\* The clock is read at instants that straddle the expiry: one millisecond
\* short of a whole CACHE_DURATION after an even reading, one millisecond
\* after an odd one.
Tick ==
    /\ ticks < MaxTicks
    /\ clock' = clock + (IF ticks % 2 = 0 THEN CACHE_DURATION - 1 ELSE 1)
    /\ ticks' = ticks + 1
    /\ UNCHANGED <<cacheVars, handlerVars, lastRefresh, aggVars>>

\* ----------------------------------------------------------------- handler
\* As CacheValid, with the entry still taken as valid at the age CACHE_DURATION.
CacheValidAtExpiry(t) ==
    Truthy(cachedKnowledgeBase) /\ (t - cacheTimestamp <= CACHE_DURATION)

\* The test of "Check if we have a valid cache", at time t.
CacheValid(t) ==
    Truthy(cachedKnowledgeBase) /\ (t - cacheTimestamp < CACHE_DURATION)

\* As UpdateCache, without the assignment to cacheTimestamp.
UpdateCacheDocumentOnly(knowledgeBase, t) ==
    /\ cachedKnowledgeBase' = knowledgeBase
    /\ UNCHANGED cacheTimestamp

\* As UpdateCache, keeping an entry that is not older than the one offered.
UpdateCacheIfNewer(knowledgeBase, t) ==
    IF Truthy(cachedKnowledgeBase) /\ cacheTimestamp >= t
    THEN UNCHANGED cacheVars
    ELSE /\ cachedKnowledgeBase' = knowledgeBase
         /\ cacheTimestamp' = t

\* "Update the cache".
UpdateCache(knowledgeBase, t) ==
    /\ cachedKnowledgeBase' = knowledgeBase
    /\ cacheTimestamp' = t

\* The handler returns resp: its locals go, the response stays to be read.
\* What it read of the event and of process.env is kept beside the response.
Return(r, ev, e, resp) ==
    /\ pc' = [pc EXCEPT ![r] = "idle"]
    /\ event' = [event EXCEPT ![r] = ev]
    /\ env' = [env EXCEPT ![r] = e]
    /\ now' = [now EXCEPT ![r] = 0]
    /\ payload' = [payload EXCEPT ![r] = NoPayload]
    /\ response' = [response EXCEPT ![r] = resp]

\* A throw inside the try block: the catch block answers 500.
Throw(r, ev, e, message) == Return(r, ev, e, FunctionError(message))

\* "Prepare and Call Gemini API", up to the await of fetch: the body is read
\* here for the first time.
CallGemini(r, method, e, knowledgeBase) ==
    \E body \in Bodies :
        LET ev == [httpMethod |-> method, body |-> body] IN
        IF ~body.json THEN Throw(r, ev, e, BodySyntaxError)
        ELSE IF body.userQuestion = "" THEN Throw(r, ev, e, NoQuestion)
        ELSE /\ pc' = [pc EXCEPT ![r] = "calling"]
             /\ event' = [event EXCEPT ![r] = ev]
             /\ env' = [env EXCEPT ![r] = e]
             /\ now' = [now EXCEPT ![r] = 0]
             /\ payload' = [payload EXCEPT ![r] = Payload(knowledgeBase, body.userQuestion)]
             /\ response' = [response EXCEPT ![r] = NoResponse]

\* The handler from its entry to its first await (or to its return).
Start(r) ==
    /\ pc[r] = "idle"
    /\ \E method \in Methods :
        IF method # "POST"
        THEN /\ Return(r, [httpMethod |-> method, body |-> NotRead], NoEnv, MethodNotAllowed)
             /\ UNCHANGED cacheVars
        ELSE \E e \in Envs :
            LET ev == [httpMethod |-> method, body |-> NotRead] IN
            IF ConfigError(e) # ""
            THEN Throw(r, ev, e, ConfigError(e)) /\ UNCHANGED cacheVars
            ELSE IF CacheValid(clock)
            THEN CallGemini(r, method, e, cachedKnowledgeBase) /\ UNCHANGED cacheVars
            ELSE IF ~ParsesAsJSON(e.DRIVE_API_CREDENTIALS)
            THEN Throw(r, ev, e, InvalidCredentials) /\ UNCHANGED cacheVars
            ELSE /\ pc' = [pc EXCEPT ![r] = "refreshing"]
                 /\ event' = [event EXCEPT ![r] = ev]
                 /\ env' = [env EXCEPT ![r] = e]
                 /\ now' = [now EXCEPT ![r] = clock]
                 /\ payload' = [payload EXCEPT ![r] = NoPayload]
                 /\ response' = [response EXCEPT ![r] = NoResponse]
                 /\ UNCHANGED cacheVars
    /\ UNCHANGED <<clockVars, lastRefresh, aggVars>>

\* As RefreshFailed, answering from the stored document when there is one.
RefreshFailedServesStale(r, message) ==
    /\ IF Truthy(cachedKnowledgeBase)
       THEN CallGemini(r, event[r].httpMethod, env[r], cachedKnowledgeBase)
       ELSE Throw(r, event[r], env[r], message)
    /\ UNCHANGED <<cacheVars, lastRefresh>>

\* As RefreshFailed, dropping the entry whose refresh failed.
RefreshFailedInvalidates(r, message) ==
    /\ Throw(r, event[r], env[r], message)
    /\ cachedKnowledgeBase' = Null
    /\ cacheTimestamp' = 0
    /\ UNCHANGED lastRefresh

\* The refresh of invocation r fails: getKnowledgeFromDrive rejected, or the
\* handler threw on its empty result. Control goes to the catch block, past
\* "Update the cache".
RefreshFailed(r, message) ==
    /\ Throw(r, event[r], env[r], message)
    /\ UNCHANGED <<cacheVars, lastRefresh>>

\* As RefreshReturn, with the body read and checked before "Update the cache".
RefreshReturnValidatesFirst(r) ==
    /\ pc[r] = "refreshing"
    /\ \E listing \in Listings(MaxListed) :
        IF listing.kind = "error"
        THEN RefreshFailed(r, DriveError)
        ELSE \E outcome \in [1..Len(listing.files) -> FileOutcomes] :
            LET knowledgeBase == GetKnowledgeFromDrive(listing, outcome) IN
            IF ~Truthy(knowledgeBase)
            THEN RefreshFailed(r, NoContent)
            ELSE \/ /\ CallGemini(r, event[r].httpMethod, env[r], knowledgeBase)
                    /\ pc'[r] = "idle"
                    /\ UNCHANGED <<cacheVars, lastRefresh>>
                 \/ /\ CallGemini(r, event[r].httpMethod, env[r], knowledgeBase)
                    /\ pc'[r] = "calling"
                    /\ UpdateCache(knowledgeBase, now[r])
                    /\ lastRefresh' =
                           [by |-> r, files |-> Len(listing.files),
                            failed |-> {i \in 1..Len(listing.files) : outcome[i] # "ok"},
                            doc |-> knowledgeBase, now |-> now[r], at |-> clock]
    /\ UNCHANGED <<clockVars, aggVars>>

\* The await of getKnowledgeFromDrive ends: it rejected, or it returned '' or
\* the aggregated text.
RefreshReturn(r) ==
    /\ pc[r] = "refreshing"
    /\ \E listing \in Listings(MaxListed) :
        IF listing.kind = "error"
        THEN RefreshFailed(r, DriveError)
        ELSE \E outcome \in [1..Len(listing.files) -> FileOutcomes] :
            LET knowledgeBase == GetKnowledgeFromDrive(listing, outcome) IN
            IF ~Truthy(knowledgeBase)
            THEN RefreshFailed(r, NoContent)
            ELSE /\ UpdateCache(knowledgeBase, now[r])
                 /\ lastRefresh' =
                        [by |-> r, files |-> Len(listing.files),
                         failed |-> {i \in 1..Len(listing.files) : outcome[i] # "ok"},
                         doc |-> knowledgeBase, now |-> now[r], at |-> clock]
                 /\ CallGemini(r, event[r].httpMethod, env[r], knowledgeBase)
    /\ UNCHANGED <<clockVars, aggVars>>

\* The await of fetch (and of the response's JSON) ends.
GeminiReturn(r) ==
    /\ pc[r] = "calling"
    /\ \E outcome \in GeminiOutcomes :
        CASE outcome = "ok" -> Return(r, event[r], env[r], Success(GeminiReply))
          [] outcome = "errorMessage" -> Throw(r, event[r], env[r], GeminiMessage)
          [] outcome = "errorNoMessage" -> Throw(r, event[r], env[r], GeminiFailed)
          [] outcome = "rejected" -> Throw(r, event[r], env[r], FetchFailed)
    /\ UNCHANGED <<clockVars, cacheVars, lastRefresh, aggVars>>

Next ==
    \/ Tick
    \/ \E r \in Reqs : Start(r)
    \/ \E r \in Reqs : RefreshReturn(r)
    \/ \E r \in Reqs : GeminiReturn(r)

Spec == Init /\ [][Next]_vars

\* Every await of the handler ends: the promise of getKnowledgeFromDrive and
\* that of fetch each resolve or reject, and the handler is then resumed.
LiveSpec ==
    /\ Spec
    /\ \A r \in Reqs : WF_vars(RefreshReturn(r)) /\ WF_vars(GeminiReturn(r))

\* ------------------------------------------------ inside getKnowledgeFromDrive
\* One call of getKnowledgeFromDrive, step by step: the listing, then one task
\* per file, all started at once and each suspended at its byte fetch and at
\* its extraction, then the join of Promise.all.
Pending == <<"(pending)">>

\* The call: drive.files.list is awaited.
AggCall ==
    /\ aggPc \in {"idle", "returned", "rejected"}
    /\ aggPc' = "listing"
    /\ aggListed' = ""
    /\ aggFiles' = <<>>
    /\ task' = <<>>
    /\ allTexts' = <<>>
    /\ aggOutcome' = <<>>
    /\ settled' = <<>>
    /\ aggResult' = Undefined
    /\ UNCHANGED <<clockVars, cacheVars, handlerVars, lastRefresh>>

\* The listing resolves or rejects; files.map starts every task, each of which
\* runs to its await of drive.files.get.
DriveList ==
    /\ aggPc = "listing"
    /\ \E listing \in Listings(MaxFiles) :
        IF listing.kind = "error"
        THEN /\ aggPc' = "rejected"
             /\ aggListed' = listing.kind
             /\ UNCHANGED <<aggFiles, task, allTexts, aggOutcome, settled, aggResult>>
        ELSE IF listing.kind = "undefined" \/ Len(listing.files) = 0
        THEN /\ aggPc' = "returned"
             /\ aggListed' = listing.kind
             /\ aggResult' = Str(<<>>)
             /\ aggFiles' = listing.files
             /\ UNCHANGED <<task, allTexts, aggOutcome, settled>>
        ELSE /\ aggPc' = "tasks"
             /\ aggListed' = listing.kind
             /\ aggFiles' = listing.files
             /\ task' = [i \in 1..Len(listing.files) |-> "get"]
             /\ allTexts' = [i \in 1..Len(listing.files) |-> Pending]
             /\ aggOutcome' = [i \in 1..Len(listing.files) |-> "pending"]
             /\ UNCHANGED <<settled, aggResult>>
    /\ UNCHANGED <<clockVars, cacheVars, handlerVars, lastRefresh>>

\* A task settles: its promise resolves to text (a rejection never leaves the
\* task, the catch turns it into the placeholder).
Settle(i, outcome) ==
    /\ task' = [task EXCEPT ![i] = "done"]
    /\ allTexts' = [allTexts EXCEPT ![i] = FileTask(aggFiles[i], outcome)]
    /\ aggOutcome' = [aggOutcome EXCEPT ![i] = outcome]
    /\ settled' = Append(settled, i)

\* As FileGet, with no try block around the byte fetch: its failure leaves the
\* task and rejects Promise.all.
FileGetUncaught(i) ==
    /\ aggPc = "tasks"
    /\ i \in 1..Len(aggFiles)
    /\ task[i] = "get"
    /\ \E fetched \in BOOLEAN :
        IF ~fetched
        THEN /\ aggPc' = "rejected"
             /\ aggOutcome' = [aggOutcome EXCEPT ![i] = "fetchError"]
             /\ UNCHANGED <<task, allTexts, settled>>
        ELSE IF HasExtractor(aggFiles[i])
        THEN /\ task' = [task EXCEPT ![i] = "extract"]
             /\ UNCHANGED <<aggPc, allTexts, aggOutcome, settled>>
        ELSE Settle(i, "ok") /\ UNCHANGED aggPc
    /\ UNCHANGED <<aggListed, aggFiles, aggResult>>
    /\ UNCHANGED <<clockVars, cacheVars, handlerVars, lastRefresh>>

\* The byte fetch of file i ends (drive.files.get and streamToBuffer).
FileGet(i) ==
    /\ aggPc = "tasks"
    /\ i \in 1..Len(aggFiles)
    /\ task[i] = "get"
    /\ \E fetched \in BOOLEAN :
        IF ~fetched THEN Settle(i, "fetchError")
        ELSE IF HasExtractor(aggFiles[i])
        THEN /\ task' = [task EXCEPT ![i] = "extract"]
             /\ UNCHANGED <<allTexts, aggOutcome, settled>>
        ELSE Settle(i, "ok")
    /\ UNCHANGED <<aggPc, aggListed, aggFiles, aggResult>>
    /\ UNCHANGED <<clockVars, cacheVars, handlerVars, lastRefresh>>

\* The extraction of file i ends (pdf, mammoth or JSZip).
FileExtract(i) ==
    /\ aggPc = "tasks"
    /\ i \in 1..Len(aggFiles)
    /\ task[i] = "extract"
    /\ \E extracted \in BOOLEAN :
        Settle(i, IF extracted THEN "ok" ELSE "extractError")
    /\ UNCHANGED <<aggPc, aggListed, aggFiles, aggResult>>
    /\ UNCHANGED <<clockVars, cacheVars, handlerVars, lastRefresh>>

\* As PromiseAll, with the texts collected in the order the tasks settled.
PromiseAllInSettleOrder ==
    /\ aggPc = "tasks"
    /\ \A i \in 1..Len(aggFiles) : task[i] = "done"
    /\ aggPc' = "returned"
    /\ aggResult' = Str(Join([k \in 1..Len(settled) |-> allTexts[settled[k]]], Delimiter))
    /\ UNCHANGED <<aggListed, aggFiles, task, allTexts, aggOutcome, settled>>
    /\ UNCHANGED <<clockVars, cacheVars, handlerVars, lastRefresh>>

\* Promise.all resolves once every task has, to the tasks' texts in the order
\* of the listing; the texts are joined.
PromiseAll ==
    /\ aggPc = "tasks"
    /\ \A i \in 1..Len(aggFiles) : task[i] = "done"
    /\ aggPc' = "returned"
    /\ aggResult' = Str(Join(allTexts, Delimiter))
    /\ UNCHANGED <<aggListed, aggFiles, task, allTexts, aggOutcome, settled>>
    /\ UNCHANGED <<clockVars, cacheVars, handlerVars, lastRefresh>>

AggNext ==
    \/ AggCall
    \/ DriveList
    \/ \E i \in 1..MaxFiles : FileGet(i)
    \/ \E i \in 1..MaxFiles : FileExtract(i)
    \/ PromiseAll

AggSpec == Init /\ [][AggNext]_vars

\* ================================================================= claims
\* Invocation r takes a step from idle: the handler is entered and runs to its
\* first await or to its return.
Arrives(r) ==
    /\ pc[r] = "idle"
    /\ <<pc'[r], event'[r], env'[r], response'[r]>> # <<pc[r], event[r], env[r], response[r]>>

\* All three settings are present in what the request read of process.env.
Configured(e) ==
    e.GEMINI_API_KEY # "" /\ e.DRIVE_API_CREDENTIALS # "" /\ e.DRIVE_FOLDER_ID # ""

\* No document is cached, or the cached one has reached the expiry age.
AbsentOrExpired(t) ==
    cachedKnowledgeBase = Null \/ t - cacheTimestamp >= CACHE_DURATION

\* C1: a POST request with all three settings present takes the refresh branch
\* if and only if no document is cached or the entry's age, request time minus
\* cacheTimestamp, is >= CACHE_DURATION (the age CACHE_DURATION included); it
\* awaits the drive aggregation exactly when moreover the credentials parse.
\* Otherwise it builds its prompt from the stored document as it is, and the
\* step writes nothing to the cache.
C1_RefreshIffAbsentOrExpired ==
    [][\A r \in Reqs :
        (Arrives(r) /\ event'[r].httpMethod = "POST" /\ Configured(env'[r])) =>
            LET tookRefreshBranch ==
                    \/ pc'[r] = "refreshing"
                    \/ (pc'[r] = "idle" /\ response'[r] = FunctionError(InvalidCredentials))
            IN  /\ tookRefreshBranch <=> AbsentOrExpired(clock)
                /\ (pc'[r] = "refreshing") <=>
                       (AbsentOrExpired(clock) /\ env'[r].DRIVE_API_CREDENTIALS = ValidCredentials)
                /\ pc'[r] = "refreshing" => now'[r] = clock
                /\ pc'[r] = "calling" =>
                       payload'[r] = Payload(cachedKnowledgeBase, event'[r].body.userQuestion)
                /\ UNCHANGED cacheVars
      ]_vars

\* C1 witness: a request is refreshing that found a stored document of age
\* exactly CACHE_DURATION.
C1_Witness ==
    \E r \in Reqs :
        /\ pc[r] = "refreshing"
        /\ Truthy(cachedKnowledgeBase)
        /\ now[r] - cacheTimestamp = CACHE_DURATION

\* The step in which the refresh of invocation r fails: the credentials do not
\* parse, the listing rejects, or the aggregation returns empty text.
RefreshFails(r) ==
    \/ /\ Arrives(r)
       /\ pc'[r] = "idle"
       /\ response'[r] = FunctionError(InvalidCredentials)
    \/ /\ pc[r] = "refreshing"
       /\ pc'[r] = "idle"
       /\ response'[r] \in {FunctionError(DriveError), FunctionError(NoContent)}

\* C2: a failed refresh leaves the stored document and its timestamp exactly as
\* they were, so the entry is not dropped and its lifetime is not extended: an
\* entry that was absent or expired for the failed request is so for the next.
C2_FailedRefreshKeepsEntry ==
    [][\A r \in Reqs :
        RefreshFails(r) =>
            /\ cachedKnowledgeBase' = cachedKnowledgeBase
            /\ cacheTimestamp' = cacheTimestamp
            /\ AbsentOrExpired(clock) =>
                   (cachedKnowledgeBase' = Null \/ clock' - cacheTimestamp' >= CACHE_DURATION)
      ]_vars

\* C2 witness: the refresh of a request failed on a rejected listing while the
\* cache held the expired document that the same invocation had stored before;
\* the document is still there.
C2_Witness ==
    \E r \in Reqs :
        /\ pc[r] = "idle"
        /\ response[r] = FunctionError(DriveError)
        /\ lastRefresh.by = r
        /\ cachedKnowledgeBase = lastRefresh.doc
        /\ Truthy(cachedKnowledgeBase)
        /\ clock - cacheTimestamp >= CACHE_DURATION

\* C3: there is no single-flight: a request that finds the entry absent or
\* expired starts its own refresh also while another request is refreshing; and
\* the cache holds the document and the timestamp of the refresh that completed
\* last, whatever entry that refresh found in place.
C3_StampedeLastRefreshWins ==
    /\ [](IF lastRefresh.by = 0
          THEN cachedKnowledgeBase = Null /\ cacheTimestamp = 0
          ELSE cachedKnowledgeBase = lastRefresh.doc /\ cacheTimestamp = lastRefresh.now)
    /\ [][\A r, q \in Reqs :
            ( /\ r # q
              /\ pc[q] = "refreshing"
              /\ Arrives(r)
              /\ event'[r].httpMethod = "POST"
              /\ Configured(env'[r])
              /\ env'[r].DRIVE_API_CREDENTIALS = ValidCredentials
              /\ AbsentOrExpired(clock) )
            => (pc'[r] = "refreshing" /\ pc'[q] = "refreshing")
        ]_vars

\* C3 witness: both invocations found the cache empty at the same clock reading,
\* both refreshed, their documents differ, and the cache holds that of
\* invocation 2, which completed last.
C3_Witness ==
    /\ ticks = 0
    /\ pc[1] = "calling"
    /\ pc[2] = "calling"
    /\ payload[1] # payload[2]
    /\ lastRefresh.by = 2
    /\ payload[2] = Payload(cachedKnowledgeBase, event[2].body.userQuestion)

\* C4 (as claimed): the timestamp stored with a refreshed document is the time
\* at which it is stored, the time the refresh completed, so that the entry's
\* age is zero at the moment of the store.
C4_TimestampIsStoreTime ==
    lastRefresh.by # 0 => cacheTimestamp = lastRefresh.at

\* The aggregation behind the last stored document found no text: it listed
\* files and every one of them failed. (A listing of no file is never stored.)
EmptyKnowledgeBase(refresh) ==
    refresh.failed = 1..refresh.files

\* C6 (as claimed): a refresh that finds an empty knowledge base, no file or no
\* file that yielded text, is fatal for its request: its result is never stored
\* in the cache and never sent to the model.
C6_EmptyKnowledgeBaseIsFatal ==
    /\ lastRefresh.by # 0 => ~EmptyKnowledgeBase(lastRefresh)
    /\ \A r \in Reqs :
        (pc[r] = "calling" /\ lastRefresh.by = r /\ lastRefresh.now = now[r]
            /\ payload[r] = Payload(lastRefresh.doc, event[r].body.userQuestion))
        => ~EmptyKnowledgeBase(lastRefresh)

\* C8: a POST request that finds one of the three settings absent returns
\* status 500 with the message naming an absent setting in the very step in
\* which it arrives: nothing is awaited (no drive call, no model call) and the
\* cache and the record of refreshes are as they were, whatever the cache held.
C8_MissingSettingFailsFirst ==
    [][\A r \in Reqs :
        (Arrives(r) /\ event'[r].httpMethod = "POST" /\ ~Configured(env'[r])) =>
            /\ pc'[r] = "idle"
            /\ response'[r].statusCode = 500
            /\ \/ /\ env'[r].GEMINI_API_KEY = ""
                  /\ response'[r].error =
                        <<"Function Error: ", "Server configuration error: GEMINI_API_KEY is missing.">>
               \/ /\ env'[r].DRIVE_API_CREDENTIALS = ""
                  /\ response'[r].error =
                        <<"Function Error: ", "Server configuration error: DRIVE_API_CREDENTIALS is missing.">>
               \/ /\ env'[r].DRIVE_FOLDER_ID = ""
                  /\ response'[r].error =
                        <<"Function Error: ", "Server configuration error: DRIVE_FOLDER_ID is missing.">>
            /\ ~event'[r].body.read
            /\ UNCHANGED <<cacheVars, lastRefresh>>
      ]_vars

\* C8 witness: a request that found only the folder identifier absent was
\* answered 500 while the cache held a document that had not expired.
C8_Witness ==
    \E r \in Reqs :
        /\ pc[r] = "idle"
        /\ event[r].httpMethod = "POST"
        /\ env[r].GEMINI_API_KEY # ""
        /\ env[r].DRIVE_API_CREDENTIALS = ValidCredentials
        /\ env[r].DRIVE_FOLDER_ID = ""
        /\ response[r].statusCode = 500
        /\ Truthy(cachedKnowledgeBase)
        /\ clock - cacheTimestamp < CACHE_DURATION

\* C9 (as claimed): no request that read malformed drive credentials is
\* answered with status 200.
C9_MalformedCredentialsAreFatal ==
    \A r \in Reqs :
        env[r].DRIVE_API_CREDENTIALS = MalformedCredentials => response[r].statusCode # 200

\* The body carries a chat history and no userQuestion.
IsChat(body) ==
    body.read /\ body.json /\ body.userQuestion = "" /\ Len(body.chatHistory) > 0

\* C10 (as claimed): a request whose body carries a chatHistory and no
\* userQuestion is served: once its body is read, its history is on its way to
\* the model, or the model's answer (or the model's failure) is its response.
C10_ChatModeIsServed ==
    \A r \in Reqs :
        IsChat(event[r].body) =>
            \/ pc[r] = "calling" /\ payload[r] # NoPayload
            \/ /\ pc[r] = "idle"
               /\ response[r] \in {Success(GeminiReply), FunctionError(GeminiMessage),
                                   FunctionError(GeminiFailed), FunctionError(FetchFailed)}

\* --------------------------------------------- claims on the request's course
\* The terminal states of a request: answered 200 with the model's reply and no
\* error, or answered with an error status and an error text.
Responding(resp) ==
    resp.statusCode = 200 /\ Len(resp.error) = 0 /\ Len(resp.candidates) > 0
Failed(resp) ==
    resp.statusCode \in {405, 500} /\ Len(resp.error) > 0 /\ Len(resp.candidates) = 0

\* C11: a request goes from idle through the cache check either to answering
\* (hit) or to refreshing (miss) and from there to answering, and ends
\* responding (status 200) or failed (an error response), never both. From
\* refreshing it goes only on to answering, after its own store, or to failed;
\* from answering only to a terminal state: the refresh is attempted at most
\* once and the model called at most once in a request, no stage is entered
\* again after a failure, and a failed refresh ends the request with an error
\* and with nothing sent to the model. Provided each awaited call returns or
\* throws, no request stays in flight for ever: it leaves refreshing and
\* answering, and it leaves them for idle only in a terminal state.
C11_RequestCourse ==
    /\ [][\A r \in Reqs :
            /\ Arrives(r) =>
                   /\ pc'[r] = "idle" => Failed(response'[r])
                   /\ pc'[r] = "refreshing" =>
                          (~CacheValid(clock) /\ response'[r] = NoResponse
                              /\ payload'[r] = NoPayload)
                   /\ pc'[r] = "calling" =>
                          (CacheValid(clock) /\ response'[r] = NoResponse
                              /\ payload'[r] # NoPayload)
            /\ (pc[r] = "refreshing" /\ pc'[r] # "refreshing") =>
                   /\ pc'[r] = "calling" =>
                          /\ lastRefresh'.by = r
                          /\ lastRefresh'.now = now[r]
                          /\ lastRefresh'.at = clock
                          /\ cachedKnowledgeBase' = lastRefresh'.doc
                          /\ payload'[r] =
                                 Payload(lastRefresh'.doc, event'[r].body.userQuestion)
                          /\ response'[r] = NoResponse
                   /\ pc'[r] # "calling" =>
                          (pc'[r] = "idle" /\ Failed(response'[r]) /\ payload'[r] = NoPayload)
            /\ RefreshFails(r) =>
                   (pc'[r] = "idle" /\ response'[r].statusCode = 500 /\ payload'[r] = NoPayload)
            /\ (pc[r] = "calling" /\ pc'[r] # "calling") =>
                   /\ pc'[r] = "idle"
                   /\ Responding(response'[r]) \/ Failed(response'[r])
                   /\ ~(Responding(response'[r]) /\ Failed(response'[r]))
            /\ (pc[r] = "refreshing" /\ pc'[r] = "refreshing") =>
                   (now'[r] = now[r] /\ event'[r] = event[r])
            /\ (pc[r] = "calling" /\ pc'[r] = "calling") => payload'[r] = payload[r]
       ]_vars
    /\ \A r \in Reqs : []<>(pc[r] = "idle")

\* C11 witness: a request that found the entry missing or expired refreshed,
\* called the model and was answered 200 (its refresh, begun a whole
\* CACHE_DURATION before it was stored, is the last one stored).
C11_Witness ==
    \E r \in Reqs :
        /\ pc[r] = "idle"
        /\ Responding(response[r])
        /\ lastRefresh.by = r
        /\ lastRefresh.at = clock
        /\ lastRefresh.at - lastRefresh.now >= CACHE_DURATION

\* C12: the cache slot is either empty (null document, timestamp 0, nothing
\* ever stored) or holds a non-empty document that an aggregation returned,
\* with the timestamp that the same step wrote. A populated slot is never
\* emptied. Only the step in which a request's refresh succeeds writes to the
\* slot, and it writes the document and the timestamp together, so no state
\* pairs the document of one store with the timestamp of another. A step of a
\* request that found the entry valid, and any step while no request is
\* refreshing, changes neither.
C12_SlotEmptyOrStoredPair ==
    /\ [](IF cachedKnowledgeBase = Null
          THEN cacheTimestamp = 0 /\ lastRefresh.by = 0
          ELSE /\ Truthy(cachedKnowledgeBase)
               /\ lastRefresh.by \in Reqs
               /\ lastRefresh.files >= 1
               /\ cachedKnowledgeBase = lastRefresh.doc
               /\ cacheTimestamp = lastRefresh.now)
    /\ [][/\ cachedKnowledgeBase # Null => cachedKnowledgeBase' # Null
          /\ (cacheVars' # cacheVars \/ lastRefresh' # lastRefresh) =>
                 \E r \in Reqs :
                     /\ pc[r] = "refreshing"
                     /\ pc'[r] # "refreshing"
                     /\ lastRefresh'.by = r
                     /\ lastRefresh'.at = clock
                     /\ cachedKnowledgeBase' = lastRefresh'.doc
                     /\ Truthy(cachedKnowledgeBase')
                     /\ cacheTimestamp' = now[r]
          /\ \A r \in Reqs :
                 (Arrives(r) /\ CacheValid(clock)) => UNCHANGED cacheVars
          /\ (\A r \in Reqs : pc[r] # "refreshing") => UNCHANGED cacheVars
         ]_vars

\* C12 witness: the slot holds the document and the timestamp CACHE_DURATION of
\* the refresh of a request that is now answering from it, in place of another
\* document, from which the other request is still answering.
C12_Witness ==
    \E r, q \in Reqs :
        /\ r # q
        /\ lastRefresh.by = r
        /\ cacheTimestamp = CACHE_DURATION
        /\ pc[r] = "calling"
        /\ payload[r] = Payload(cachedKnowledgeBase, event[r].body.userQuestion)
        /\ pc[q] = "calling"
        /\ payload[q] # Payload(cachedKnowledgeBase, event[q].body.userQuestion)

\* C13 (as claimed): the stored cacheTimestamp never decreases, whatever the
\* interleaving of the requests: each store writes a timestamp that is greater
\* than or equal to the one it overwrites.
C13_TimestampNeverDecreases ==
    [][cacheTimestamp' >= cacheTimestamp]_vars

\* The body as read holds no userQuestion (it is JSON, with or without a chat
\* history).
NoUserQuestion(body) == body.read /\ body.json /\ body.userQuestion = ""

\* C14: the body is read only after the cache step. A request reads its body
\* either in the step in which it arrives and finds the entry valid, which
\* leaves the cache as it was, or in the step in which its refresh succeeds,
\* which stores the new document and timestamp whatever the body holds; a
\* request that arrives on an absent or expired entry goes to the drive with
\* its body unread. A body without userQuestion then ends the request with
\* status 500 'No user question was provided.', after the store in the one case
\* and with the cache untouched in the other, and the model is called in
\* neither: no request with such a body ever awaits the model.
C14_BodyCheckedAfterCacheStep ==
    /\ [](\A r \in Reqs :
            /\ pc[r] = "refreshing" => ~event[r].body.read
            /\ pc[r] = "calling" =>
                   (event[r].body.read /\ event[r].body.userQuestion # ""))
    /\ [][\A r \in Reqs :
            /\ (Arrives(r) /\ event'[r].httpMethod = "POST" /\ Configured(env'[r])
                   /\ env'[r].DRIVE_API_CREDENTIALS = ValidCredentials
                   /\ ~CacheValid(clock)) =>
                   (pc'[r] = "refreshing" /\ ~event'[r].body.read)
            /\ (Arrives(r) /\ event'[r].body.read) =>
                   (CacheValid(clock) /\ UNCHANGED <<cacheVars, lastRefresh>>)
            /\ (Arrives(r) /\ NoUserQuestion(event'[r].body)) =>
                   /\ pc'[r] = "idle"
                   /\ response'[r] = FunctionError("No user question was provided.")
                   /\ payload'[r] = NoPayload
            /\ (pc[r] = "refreshing" /\ pc'[r] # "refreshing" /\ event'[r].body.read) =>
                   /\ lastRefresh'.by = r
                   /\ lastRefresh'.at = clock
                   /\ Truthy(lastRefresh'.doc)
                   /\ cachedKnowledgeBase' = lastRefresh'.doc
                   /\ cacheTimestamp' = now[r]
            /\ (pc[r] = "refreshing" /\ pc'[r] # "refreshing"
                   /\ NoUserQuestion(event'[r].body)) =>
                   /\ pc'[r] = "idle"
                   /\ response'[r] = FunctionError("No user question was provided.")
                   /\ response'[r].statusCode = 500
                   /\ payload'[r] = NoPayload
            /\ (pc[r] = "refreshing" /\ pc'[r] = "idle" /\ ~event'[r].body.read) =>
                   UNCHANGED <<cacheVars, lastRefresh>>
       ]_vars

\* C14 witness: a request without userQuestion that found the entry expired was
\* answered 500 'No user question was provided.' after its refresh, begun a
\* whole CACHE_DURATION before, had stored its document and timestamp.
C14_Witness ==
    \E r \in Reqs :
        /\ pc[r] = "idle"
        /\ NoUserQuestion(event[r].body)
        /\ response[r] = FunctionError(NoQuestion)
        /\ lastRefresh.by = r
        /\ lastRefresh.at = clock
        /\ lastRefresh.at - lastRefresh.now >= CACHE_DURATION
        /\ cachedKnowledgeBase = lastRefresh.doc
        /\ cacheTimestamp = lastRefresh.now

\* ------------------------------------------------- claims on the aggregation
\* The segment the claim gives file i of the listing.
ClaimedSegment(i) ==
    IF aggOutcome[i] = "ok"
    THEN <<"[Content from file: ", aggFiles[i].name, "]\n">> \o ExtractText(aggFiles[i])
    ELSE <<"[Error reading file: ", aggFiles[i].name, "]">>

\* The first n segments in listing order, "\n\n---\n\n" between them.
RECURSIVE ClaimedText(_)
ClaimedText(n) ==
    IF n = 0 THEN <<>>
    ELSE IF n = 1 THEN ClaimedSegment(1)
    ELSE ClaimedText(n - 1) \o <<"\n\n---\n\n">> \o ClaimedSegment(n)

Occurrences(text, token) == Cardinality({k \in 1..Len(text) : text[k] = token})

\* C5: an aggregation that listed N >= 1 files, K of which failed in the byte
\* fetch or in the extraction, returns the N segments in listing order with the
\* delimiter between them (N - 1 delimiters), whatever the order in which the
\* tasks settled: K placeholders '[Error reading file: <name>]' for the failing
\* files and '[Content from file: <name>]' with the text for the others. While
\* the tasks run, each settled task holds its own segment whatever its
\* siblings did.
C5_SegmentsInListingOrder ==
    LET N == Len(aggFiles)
        K == Cardinality({i \in 1..N : aggOutcome[i] \in {"fetchError", "extractError"}})
    IN  /\ (aggPc = "returned" /\ N >= 1) =>
              /\ aggResult = Str(ClaimedText(N))
              /\ Occurrences(aggResult.s, "\n\n---\n\n") = N - 1
              /\ Occurrences(aggResult.s, "[Error reading file: ") = K
              /\ Occurrences(aggResult.s, "[Content from file: ") = N - K
        /\ aggPc = "tasks" =>
              \A i \in 1..N : task[i] = "done" => allTexts[i] = ClaimedSegment(i)

\* C5 witness: three files were listed, their tasks settled in the reverse of
\* the listing order, the extraction of the first and the byte fetch of the
\* third failed, and the aggregation returned.
C5_Witness ==
    /\ aggPc = "returned"
    /\ Len(aggFiles) = 3
    /\ settled = <<3, 2, 1>>
    /\ aggOutcome = <<"extractError", "ok", "fetchError">>

\* C7 (as claimed): a failure of the byte fetch of a single file aborts the
\* whole aggregation and is not degraded to the file's placeholder.
C7_FileFetchFailureAborts ==
    \A i \in 1..Len(aggOutcome) :
        aggOutcome[i] = "fetchError" =>
            /\ aggPc # "returned"
            /\ allTexts[i] # <<"[Error reading file: ", aggFiles[i].name, "]">>

\* C7 (amended): the aggregation rejects exactly when the folder listing call
\* fails, and then no task was started and nothing is returned; a failure of
\* the byte fetch of a single file does not abort it: the file's task settles
\* with its placeholder, as for an extraction error, and the aggregation goes
\* on to return its text.
C7_OnlyListingFailureAborts ==
    /\ aggPc = "rejected" <=> aggListed = "error"
    /\ aggPc = "rejected" => (Len(aggFiles) = 0 /\ Len(task) = 0 /\ aggResult = Undefined)
    /\ \A i \in 1..Len(aggOutcome) :
        aggOutcome[i] \in {"fetchError", "extractError"} =>
            /\ aggPc \in {"tasks", "returned"}
            /\ task[i] = "done"
            /\ allTexts[i] = <<"[Error reading file: ", aggFiles[i].name, "]">>
    /\ (aggPc = "returned" /\ Len(aggFiles) >= 1) => Truthy(aggResult)

\* C7 witness: the aggregation returned its text although the byte fetch of
\* one file failed; another file's text is in it.
C7_Witness ==
    /\ aggPc = "returned"
    /\ Truthy(aggResult)
    /\ \E i, j \in 1..Len(aggOutcome) : aggOutcome[i] = "fetchError" /\ aggOutcome[j] = "ok"

====
